---- MODULE Spec2Model ----
(***************************************************************************)
(* Model of blaze::SparseSubvector<VT,TF> (blaze/math/views/               *)
(* SparseSubvector.h): a non-owning view on the index range                *)
(* [start_, start_+size_) of a sparse vector vector_.                      *)
(*                                                                         *)
(* The backing sparse vector is a sequence of entries [index, value]       *)
(* kept strictly ascending by index.  Iterators of the backing vector are  *)
(* positions 1..Len+1 of that sequence (Len+1 is the vector's end()).      *)
(***************************************************************************)
EXTENDS Integers, Sequences, FiniteSets, TLC

\* ------------------------------------------------------------------ bounds

\* size() of the backing sparse vector the views are created on.
VecSize == 3

\* Scaled-down width of size_t: indices are SizeBits-bit unsigned integers.
SizeBits == 4

SizeMod == 2 ^ SizeBits

\* columns() of the operands of the matrix subtraction test.
MatColumns == 2

\* The values of size_t.
SizeT == 0 .. (SizeMod - 1)

\* Element values (ElementType is a built-in integral type); 0 is the default.
Values == {-1, 0, 1}

\* ------------------------------------------------------------------ state

VARIABLES
    vector_,   \* the entries of the sparse vector containing the subvector
    start_,    \* the first index of the subvector
    size_,     \* the size of the subvector
    live,      \* TRUE once a SparseSubvector object has been constructed
    pc,        \* "idle" between calls, "done" when a call has just finished
    op,        \* the member function called
    arg,       \* its arguments
    pre,       \* the entries of the vector when it was called
    err,       \* its outcome: "none" or the exception it threw
    ret,       \* the value it returned, if any
    harness    \* the members of the SMatSMatSub test object and its position

vars == <<vector_, start_, size_, live, pc, op, arg, pre, err, ret, harness>>

\* ------------------------------------------- backing sparse vector (VT)

Entry(i, v) == [index |-> i, value |-> v]

\* Strictly ascending by index: the representation invariant of the vector.
IsSorted(v) == \A k \in 1 .. (Len(v) - 1) : v[k].index < v[k + 1].index

Indices(v) == {v[k].index : k \in 1 .. Len(v)}

\* All sparse vectors of size n over Values: one choice (absent or a value)
\* per index, listed in ascending index order.
RECURSIVE SparseVectors(_)
SparseVectors(n) ==
    IF n = 0 THEN {<<>>}
    ELSE LET shorter == SparseVectors(n - 1)
         IN  shorter \cup {Append(s, Entry(n - 1, x)) : s \in shorter, x \in Values}

\* VT::lowerBound(index): position of the first entry with index >= i.
VecLowerBound(v, i) ==
    IF \E k \in 1 .. Len(v) : v[k].index >= i
    THEN CHOOSE k \in 1 .. Len(v) :
            /\ v[k].index >= i
            /\ \A j \in 1 .. (k - 1) : v[j].index < i
    ELSE Len(v) + 1

\* VT::upperBound(index): position of the first entry with index > i.
VecUpperBound(v, i) ==
    IF \E k \in 1 .. Len(v) : v[k].index > i
    THEN CHOOSE k \in 1 .. Len(v) :
            /\ v[k].index > i
            /\ \A j \in 1 .. (k - 1) : v[j].index <= i
    ELSE Len(v) + 1

\* VT::find(index): position of the entry with index i, or end().
VecFind(v, i) ==
    IF \E k \in 1 .. Len(v) : v[k].index = i
    THEN CHOOSE k \in 1 .. Len(v) : v[k].index = i
    ELSE Len(v) + 1

VecEnd(v) == Len(v) + 1

\* Placing a new entry at its sorted position.
VecPut(v, i, x) ==
    LET p == VecLowerBound(v, i)
    IN  SubSeq(v, 1, p - 1) \o <<Entry(i, x)>> \o SubSeq(v, p, Len(v))

\* VT::insert(index, value): throws std::invalid_argument on a duplicate.
VecInsertThrows(v, i) == VecFind(v, i) /= VecEnd(v)

VecInsert(v, i, x) == IF VecInsertThrows(v, i) THEN v ELSE VecPut(v, i, x)

\* VT::operator[](index) (non-const): inserts a default entry when absent.
VecAccess(v, i) == IF VecFind(v, i) /= VecEnd(v) THEN v ELSE VecPut(v, i, 0)

\* Assignment through the reference VT::operator[](index) returns.
VecStore(v, i, x) ==
    LET w == VecAccess(v, i)
    IN  [k \in 1 .. Len(w) |-> IF w[k].index = i THEN Entry(i, x) ELSE w[k]]

\* VT::operator[](index) const: the stored value, or the default.
VecAt(v, i) ==
    IF VecFind(v, i) /= VecEnd(v) THEN v[VecFind(v, i)].value ELSE 0

\* VT::erase(first, last): removes the positions [first, last).
VecEraseRange(v, first, last) ==
    SubSeq(v, 1, first - 1) \o SubSeq(v, last, Len(v))

\* VT::erase(index): removes the entry with index i, if any.
VecEraseIndex(v, i) ==
    LET p == VecFind(v, i)
    IN  IF p = VecEnd(v) THEN v ELSE VecEraseRange(v, p, p + 1)

\* ------------------------------------------------------ SparseSubvector

\* size_t addition.
SizeAdd(a, b) == (a + b) % SizeMod

\* The constructor's check: "Invalid subvector specification".
CtorThrows(vsize, start, n) == n = 0 \/ SizeAdd(start, n) > vsize

\* Mutant of Begin: the iteration starts at the first entry of the vector.
BeginOfVector(v, s, n) == VecLowerBound(v, 0)

\* begin(): Iterator( vector_.lowerBound( start_ ), start_ ).
Begin(v, s, n) == VecLowerBound(v, s)

\* Mutant of End: the bound is one index too far.
EndPastRange(v, s, n) == VecLowerBound(v, SizeAdd(SizeAdd(s, n), 1))

\* end(): Iterator( vector_.lowerBound( start_ + size_ ), start_ ).
End(v, s, n) == VecLowerBound(v, SizeAdd(s, n))

\* SubvectorElement::index(): pos_->index() - offset_.
ElementIndex(e, offset) == (e.index - offset) % SizeMod

\* The elements met by  for( it=begin(); it!=end(); ++it ), as
\* (index(), value()) pairs in the order of the iteration.
Iterate(v, s, n) ==
    LET b == Begin(v, s, n)
        e == End(v, s, n)
    IN  [k \in 1 .. (e - b) |->
            Entry(ElementIndex(v[b + k - 1], s), v[b + k - 1].value)]

\* nonZeros(): end() - begin().
NonZeros(v, s, n) == End(v, s, n) - Begin(v, s, n)

\* size().
Size(v, s, n) == n

\* capacity().
Capacity(v, s, n) == n

\* reserve( n ): return.
ViewReserve(v, s, n, m) == v

\* operator[]( index ) const.
ViewAt(v, s, i) == VecAt(v, SizeAdd(s, i))

\* Mutant of ViewStore: the access index is not shifted by start_.
ViewStoreNoOffset(v, s, i, x) == VecStore(v, i, x)

\* operator[]( index ) (non-const) followed by an assignment of x.
ViewStore(v, s, i, x) == VecStore(v, SizeAdd(s, i), x)

\* operator[]( index ) (non-const) on its own.
ViewAccess(v, s, i) == VecAccess(v, SizeAdd(s, i))

\* Mutant of ViewReset: erases up to the end of the vector.
ViewResetToEnd(v, s, n) == VecEraseRange(v, Begin(v, s, n), VecEnd(v))

\* reset().
ViewReset(v, s, n) == VecEraseRange(v, Begin(v, s, n), End(v, s, n))

\* Mutant of ViewInsert: the index is not shifted by start_.
ViewInsertNoOffset(v, s, i, x) == VecInsert(v, i, x)

\* insert( index, value ).
ViewInsertThrows(v, s, i) == VecInsertThrows(v, SizeAdd(s, i))

ViewInsert(v, s, i, x) == VecInsert(v, SizeAdd(s, i), x)

\* erase( index ).
\* Mutant of ViewErase: the index is not shifted by start_.
ViewEraseNoOffset(v, s, i) == VecEraseIndex(v, i)

ViewErase(v, s, i) == VecEraseIndex(v, SizeAdd(s, i))

\* Mutant of ViewErasePos: the returned iterator skips an element.
ViewErasePosSkips(v, s, pos) == [vec |-> VecEraseRange(v, pos, pos + 1), ret |-> pos + 1]

\* erase( pos ): Iterator( vector_.erase( pos.pos_ ), start_ ).  VT::erase
\* returns the iterator to the element after the erased one, which is at
\* the erased element's position.
ViewErasePos(v, s, pos) == [vec |-> VecEraseRange(v, pos, pos + 1), ret |-> pos]

\* erase( first, last ): Iterator( vector_.erase( first.pos_, last.pos_ ), start_ ).
ViewEraseRange(v, s, first, last) == [vec |-> VecEraseRange(v, first, last), ret |-> first]

\* Mutant of ViewFind: the vector's end() is passed on as it is.
ViewFindUnclamped(v, s, n, i) == VecFind(v, SizeAdd(s, i))

\* find( index ): the position in the vector of the iterator returned.
ViewFind(v, s, n, i) ==
    LET pos == VecFind(v, SizeAdd(s, i))
    IN  IF pos /= VecEnd(v) THEN pos ELSE End(v, s, n)

\* lowerBound( index ): Iterator( vector_.lowerBound( start_ + index ), start_ ).
ViewLowerBound(v, s, n, i) == VecLowerBound(v, SizeAdd(s, i))

\* upperBound( index ): Iterator( vector_.upperBound( start_ + index ), start_ ).
ViewUpperBound(v, s, n, i) == VecUpperBound(v, SizeAdd(s, i))

\* append( index, value, check ).
ViewAppendThrows(v, s, i, x, check) ==
    (~check \/ x /= 0) /\ VecInsertThrows(v, SizeAdd(s, i))

\* Mutant of ViewAppend: default values are never appended.
ViewAppendSkipsDefault(v, s, i, x, check) ==
    IF x /= 0 THEN VecInsert(v, SizeAdd(s, i), x) ELSE v

\* Mutant of ViewAppend: the element is put behind the last entry of the
\* vector.
ViewAppendAtEnd(v, s, i, x, check) ==
    IF ~check \/ x /= 0 THEN Append(v, Entry(SizeAdd(s, i), x)) ELSE v

ViewAppend(v, s, i, x, check) ==
    IF ~check \/ x /= 0 THEN VecInsert(v, SizeAdd(s, i), x) ELSE v

\* The addresses a view is asked about: its vector "v", another vector "w"
\* and the view object itself "sv".
Addresses == {"v", "w", "sv"}

\* Mutant of IsAliased: every address is reported as an alias.
IsAliasedToAny(vectorAddr, alias) == TRUE

\* Mutant of CanAlias: no alias is ever detected.
CanAliasNever(vectorAddr, alias) == FALSE

\* canAlias( alias ) / isAliased( alias ): the address of vector_ against
\* the given address.  Addresses are the names of the vectors.
CanAlias(vectorAddr, alias) == vectorAddr = alias

IsAliased(vectorAddr, alias) == vectorAddr = alias

\* ------------------------------------------------ right-hand side vectors

\* Largest size() of a vector on the right-hand side of an assignment.
RhsSize == 2

\* A dense vector is the sequence of its elements: x[i + 1] is element i.
DenseVectors == UNION {[1 .. m -> Values] : m \in 1 .. RhsSize}

\* A sparse vector: its size() and its entries.
SparseRhs ==
    UNION {{[size |-> m, entries |-> e] : e \in SparseVectors(m)} : m \in 1 .. RhsSize}

\* A subvector on the right-hand side: on the same vector as the target
\* (same = TRUE) or on another sparse vector w.
RhsViews ==
    {[same |-> TRUE, w |-> <<>>, wsize |-> VecSize, start |-> s, size |-> n] :
        s \in 0 .. VecSize, n \in 1 .. VecSize}
    \cup
    UNION {{[same |-> FALSE, w |-> e, wsize |-> RhsSize, start |-> s, size |-> n] :
                s \in 0 .. RhsSize, n \in 1 .. RhsSize} : e \in SparseVectors(RhsSize)}

\* Only constructed subvectors exist.
ValidRhsViews == {r \in RhsViews : ~CtorThrows(r.wsize, r.start, r.size)}

\* The address of the vector a right-hand side subvector refers to.
RhsAddr(r) == IF r.same THEN "v" ELSE "w"

\* The entries a right-hand side subvector refers to, the target's vector
\* holding cur.
RhsVector(r, cur) == IF r.same THEN cur ELSE r.w

\* ResultType tmp( rhs ): the evaluation of a subvector into a sparse vector.
EvalView(v, s, n) == [size |-> n, entries |-> Iterate(v, s, n)]

\* ---------------------------------------- assign / addAssign / subAssign

\* assign( const DenseVector& rhs ), from element i on.
RECURSIVE AssignDenseFrom(_, _, _, _, _)
AssignDenseFrom(v, s, n, x, i) ==
    IF i >= n THEN [vec |-> v, threw |-> FALSE]
    ELSE IF ViewAppendThrows(v, s, i, x[i + 1], TRUE)
         THEN [vec |-> v, threw |-> TRUE]
         ELSE AssignDenseFrom(ViewAppend(v, s, i, x[i + 1], TRUE), s, n, x, i + 1)

AssignDense(v, s, n, x) == AssignDenseFrom(v, s, n, x, 0)

\* assign( const SparseVector& rhs ), from the k-th entry of rhs on.
RECURSIVE AssignSparseFrom(_, _, _, _, _)
AssignSparseFrom(v, s, n, e, k) ==
    IF k > Len(e) THEN [vec |-> v, threw |-> FALSE]
    ELSE IF ViewAppendThrows(v, s, e[k].index, e[k].value, FALSE)
         THEN [vec |-> v, threw |-> TRUE]
         ELSE AssignSparseFrom(ViewAppend(v, s, e[k].index, e[k].value, FALSE),
                               s, n, e, k + 1)

\* Mutant of AssignSparse: default values are not appended.
AssignSparseSkipsDefault(v, s, n, e) ==
    AssignSparseFrom(v, s, n, SelectSeq(e, LAMBDA t : t.value /= 0), 1)

AssignSparse(v, s, n, e) == AssignSparseFrom(v, s, n, e, 1)

\* Mutant of ResetAssignDense: the subvector is not cleared first.
AssignDenseNoReset(v, s, n, x) == AssignDense(v, s, n, x)

\* operator=( const Vector& rhs ) after the size check, rhs not aliased:
\* reset(); assign( *this, ~rhs ).
ResetAssignDense(v, s, n, x) == AssignDense(ViewReset(v, s, n), s, n, x)

ResetAssignSparse(v, s, n, e) == AssignSparse(ViewReset(v, s, n), s, n, e)

\* operator=( const SparseSubvector& rhs ): the early return.
CopyReturnsEarly(s, r) == RhsAddr(r) = "v" /\ s = r.start

\* operator=( const SparseSubvector& rhs ) after the early return and the
\* size check.
CopyAssignResult(v, s, n, r) ==
    IF CanAlias(RhsAddr(r), "v")
    THEN LET tmp == EvalView(RhsVector(r, v), r.start, r.size)
         IN  AssignSparse(ViewReset(v, s, n), s, n, tmp.entries)
    ELSE LET cleared == ViewReset(v, s, n)
         IN  AssignSparse(cleared, s, n,
                          Iterate(RhsVector(r, cleared), r.start, r.size))

\* ------------------------------------ temporaries of compound assignment

\* The element-wise operation of +=, -= and *=.
Combine(kind, a, b) ==
    CASE kind = "add" -> a + b
      [] kind = "sub" -> a - b
      [] kind = "mult" -> a * b

\* const AddType tmp( *this + (~rhs) ) and tmp( *this - (~rhs) ), rhs dense:
\* a dense vector.
DenseTmp(kind, v, s, n, x) == [k \in 1 .. n |-> Combine(kind, ViewAt(v, s, k - 1), x[k])]

\* The entries of a sparse temporary holding f at the indices in stored.
RECURSIVE SparseOf(_, _, _)
SparseOf(f, stored, n) ==
    IF n = 0 THEN <<>>
    ELSE LET shorter == SparseOf(f, stored, n - 1)
         IN  IF (n - 1) \in stored THEN Append(shorter, Entry(n - 1, f[n])) ELSE shorter

\* const AddType tmp( *this + (~rhs) ) and tmp( *this - (~rhs) ), rhs sparse:
\* a sparse vector with an entry wherever either operand stores one.
SparseSumTmp(kind, v, s, n, e) ==
    SparseOf([k \in 1 .. n |-> Combine(kind, ViewAt(v, s, k - 1), VecAt(e, k - 1))],
             Indices(Iterate(v, s, n)) \cup Indices(e), n)

\* const MultType tmp( *this * (~rhs) ), rhs dense: a sparse vector with an
\* entry wherever the subvector stores one.
MultDenseTmp(v, s, n, x) ==
    SparseOf([k \in 1 .. n |-> ViewAt(v, s, k - 1) * x[k]], Indices(Iterate(v, s, n)), n)

\* const MultType tmp( *this * (~rhs) ), rhs sparse: a sparse vector with an
\* entry wherever both operands store one.
MultSparseTmp(v, s, n, e) ==
    SparseOf([k \in 1 .. n |-> ViewAt(v, s, k - 1) * VecAt(e, k - 1)],
             Indices(Iterate(v, s, n)) \cap Indices(e), n)

\* Mutant of CompoundDense: the subvector is cleared before the temporary
\* is computed.
CompoundDenseResetFirst(kind, v, s, n, x) ==
    LET cleared == ViewReset(v, s, n)
    IN  AssignDense(cleared, s, n, DenseTmp(kind, cleared, s, n, x))

\* addAssign / subAssign( const DenseVector& rhs ): tmp; reset(); assign( tmp ).
CompoundDense(kind, v, s, n, x) ==
    LET tmp == DenseTmp(kind, v, s, n, x)
    IN  AssignDense(ViewReset(v, s, n), s, n, tmp)

\* addAssign / subAssign( const SparseVector& rhs ): tmp; reset(); assign( tmp ).
CompoundSparse(kind, v, s, n, e) ==
    LET tmp == SparseSumTmp(kind, v, s, n, e)
    IN  AssignSparse(ViewReset(v, s, n), s, n, tmp)

\* operator*=( const Vector& rhs ) after the size check: tmp; reset(); assign( tmp ).
MultDense(v, s, n, x) ==
    LET tmp == MultDenseTmp(v, s, n, x)
    IN  AssignSparse(ViewReset(v, s, n), s, n, tmp)

MultSparse(v, s, n, e) ==
    LET tmp == MultSparseTmp(v, s, n, e)
    IN  AssignSparse(ViewReset(v, s, n), s, n, tmp)

\* Mutant of CompoundView: the right-hand side subvector is read after the
\* target has been cleared.
CompoundViewResetFirst(kind, v, s, n, r) ==
    LET e == Iterate(RhsVector(r, ViewReset(v, s, n)), r.start, r.size)
    IN  IF kind = "mult" THEN MultSparse(v, s, n, e) ELSE CompoundSparse(kind, v, s, n, e)

\* sv += rhs, sv -= rhs and sv *= rhs, rhs a subvector: the temporary is
\* built from the subvector and from rhs as they are, then reset() and
\* assign( tmp ).
CompoundView(kind, v, s, n, r) ==
    LET e == Iterate(RhsVector(r, v), r.start, r.size)
    IN  IF kind = "mult" THEN MultSparse(v, s, n, e) ELSE CompoundSparse(kind, v, s, n, e)

\* The element values stay in Values.
InValues(v) == \A k \in 1 .. Len(v) : v[k].value \in Values

\* ------------------------------------------------------- scalar operations

\* The element values of the vectors that are scaled.
ScaleValues == {-2, -1, 0, 1, 2}

\* All sparse vectors of size n over ScaleValues.
RECURSIVE ScaleVectors(_)
ScaleVectors(n) ==
    IF n = 0 THEN {<<>>}
    ELSE LET shorter == ScaleVectors(n - 1)
         IN  shorter \cup {Append(s, Entry(n - 1, x)) : s \in shorter, x \in ScaleValues}

InScaleValues(v) == \A k \in 1 .. Len(v) : v[k].value \in ScaleValues

\* The values of the entries of v.
ElementValues(v) == {v[k].value : k \in 1 .. Len(v)}

\* for( Iterator element=begin(); element!=end(); ++element ) with the
\* update  element->value() = f[element->value()].
ForEachElement(v, s, n, f) ==
    [k \in 1 .. Len(v) |->
        IF Begin(v, s, n) <= k /\ k < End(v, s, n)
        THEN Entry(v[k].index, f[v[k].value])
        ELSE v[k]]

\* Mutant of ViewScalarMult: elements that become zero are erased.
ViewScalarMultErasesZeros(v, s, n, rhs) ==
    IF rhs = 0 THEN ViewReset(v, s, n)
    ELSE ForEachElement(v, s, n, [x \in ElementValues(v) |-> x * rhs])

\* operator*=( Other rhs ): element->value() *= rhs.
ViewScalarMult(v, s, n, rhs) ==
    ForEachElement(v, s, n, [x \in ElementValues(v) |-> x * rhs])

\* scale( Other scalar ): element->value() *= scalar.
ViewScale(v, s, n, scalar) ==
    ForEachElement(v, s, n, [x \in ElementValues(v) |-> x * scalar])

\* The built-in integer division a / b, b /= 0: truncation towards zero.
IntDiv(a, b) ==
    LET q == (IF a < 0 THEN -a ELSE a) \div (IF b < 0 THEN -b ELSE b)
    IN  IF (a < 0) = (b < 0) THEN q ELSE -q

\* Mutant of ScalarDivAsserts: the assertion is compiled out.
ScalarDivAssertsNever(rhs, assertions) == FALSE

\* BLAZE_USER_ASSERT( rhs != Other(0), "Division by zero detected" ), with
\* user assertions enabled or not.
ScalarDivAsserts(rhs, assertions) == assertions /\ rhs = 0

\* Mutant of UsesReciprocal: the reciprocal is used for every type.
UsesReciprocalAlways(floating) == TRUE

\* IsNumeric<DT>::value && IsFloatingPoint<DT>::value, floating telling if
\* the quotient type DT of ElementType and Other is a floating point type.
UsesReciprocal(floating) == floating

\* const Tmp tmp( Tmp(1)/static_cast<Tmp>( rhs ) ): the fraction 1/rhs for a
\* floating point type Tmp, the integer quotient for an integral one.
Reciprocal(rhs, floating) ==
    IF floating THEN [num |-> 1, den |-> rhs] ELSE [num |-> IntDiv(1, rhs), den |-> 1]

\* element->value() *= tmp.  The element values of the model are integers:
\* a product that is no integer is not one of them.
TimesTmp(x, tmp) == IntDiv(x * tmp.num, tmp.den)

TimesTmpIsValue(x, tmp) == IntDiv(x * tmp.num, tmp.den) * tmp.den = x * tmp.num

\* operator/=( Other rhs ) past the assertion, rhs /= 0.
ViewScalarDiv(v, s, n, rhs, floating) ==
    IF UsesReciprocal(floating)
    THEN ForEachElement(v, s, n,
                        [x \in ElementValues(v) |-> TimesTmp(x, Reciprocal(rhs, floating))])
    ELSE ForEachElement(v, s, n, [x \in ElementValues(v) |-> IntDiv(x, rhs)])

\* The products of operator/= are values of the model.
ScalarDivInValues(v, s, n, rhs, floating) ==
    UsesReciprocal(floating) =>
       \A k \in Begin(v, s, n) .. (End(v, s, n) - 1) :
          TimesTmpIsValue(v[k].value, Reciprocal(rhs, floating))

\* operator/=( Other rhs ) past the assertion with rhs = 0, the subvector
\* holding elements: the division by zero leaves any value in them.
DivisionByZeroOutcomes(v, s, n) ==
    {[k \in 1 .. Len(v) |->
         IF Begin(v, s, n) <= k /\ k < End(v, s, n)
         THEN Entry(v[k].index, left[k])
         ELSE v[k]] :
        left \in [Begin(v, s, n) .. (End(v, s, n) - 1) -> Values]}

\* -------------------------------------------- subvectors of expressions

\* The expressions sub() restructures: A + B, A - B, A * B, A * c, A / c
\* and abs( A ), A and B sparse vectors of the same size and c a scalar.
BinaryKinds == {"add", "sub", "mult"}

ScalarKinds == {"smult", "sdiv"}

\* An element of the expression from the elements a and b of its operands.
ExprElement(kind, a, b, c) ==
    CASE kind = "add" -> a + b
      [] kind = "sub" -> a - b
      [] kind = "mult" -> a * b
      [] kind = "smult" -> a * c
      [] kind = "sdiv" -> IntDiv(a, c)
      [] kind = "abs" -> IF a < 0 THEN -a ELSE a

\* The indices at which the evaluated expression stores an entry.
ExprStored(kind, A, B) ==
    CASE kind \in {"add", "sub"} -> Indices(A) \cup Indices(B)
      [] kind = "mult" -> Indices(A) \cap Indices(B)
      [] OTHER -> Indices(A)

\* The evaluation of the whole expression into a sparse vector of size vsize.
EvalExpr(kind, A, B, c, vsize) ==
    SparseOf([k \in 1 .. vsize |-> ExprElement(kind, VecAt(A, k - 1), VecAt(B, k - 1), c)],
             ExprStored(kind, A, B), vsize)

\* sub( tmp, start, n ) on the evaluated expression tmp, read element by
\* element.
SubOfEvaluated(kind, A, B, c, vsize, start, n) ==
    IF CtorThrows(vsize, start, n)
    THEN [threw |-> TRUE, elems |-> <<>>]
    ELSE [threw |-> FALSE,
          elems |-> [i \in 1 .. n |-> ViewAt(EvalExpr(kind, A, B, c, vsize), start, i - 1)]]

\* Mutant of SubPushedDown: the right operand is not shifted by start.
SubPushedDownRightUnshifted(kind, A, B, c, vsize, start, n) ==
    IF CtorThrows(vsize, start, n)
    THEN [threw |-> TRUE, elems |-> <<>>]
    ELSE [threw |-> FALSE,
          elems |-> [i \in 1 .. n |->
                        ExprElement(kind, ViewAt(A, start, i - 1), ViewAt(B, 0, i - 1), c)]]

\* sub( expression, start, n ) as restructured: the expression of
\* sub( leftOperand, start, n ) and sub( rightOperand, start, n ), read
\* element by element.
SubPushedDown(kind, A, B, c, vsize, start, n) ==
    IF CtorThrows(vsize, start, n)
    THEN [threw |-> TRUE, elems |-> <<>>]
    ELSE [threw |-> FALSE,
          elems |-> [i \in 1 .. n |->
                        ExprElement(kind, ViewAt(A, start, i - 1), ViewAt(B, start, i - 1), c)]]

\* ------------------------------------------- sparse and dense matrices

\* rows() of the operands of the matrix subtraction test.
MatRows == 2

\* The value of the non-zero elements of the operands: odd, so that the
\* division by the scalar truncates.
MatValue == 3

\* The scalar of testScaledOperation( 2 ).
MatScalar == 2

\* A matrix stores its elements line by line: a row-major matrix row by
\* row, a column-major matrix column by column.  A line of a sparse matrix
\* is a sparse vector, a line of a dense matrix a sequence of values.
Matrix(kind, so, m, n, lines) ==
    [kind |-> kind, so |-> so, m |-> m, n |-> n, lines |-> lines]

\* A default constructed matrix.
EmptyMatrix(kind, so) == Matrix(kind, so, 0, 0, <<>>)

\* The number of lines of an m x n matrix and the size of a line.
Major(so, m, n) == IF so = "row" THEN m ELSE n

Minor(so, m, n) == IF so = "row" THEN n ELSE m

\* The element (i,j) is element b of line a.
Line(so, i, j) == IF so = "row" THEN i ELSE j

Within(so, i, j) == IF so = "row" THEN j ELSE i

\* The element in position b of line a is element (i,j).
Pos(so, a, b) == IF so = "row" THEN <<a, b>> ELSE <<b, a>>

Positions(m, n) == (0 .. (m - 1)) \X (0 .. (n - 1))

\* M(i,j)
MatAt(M, i, j) ==
    LET line == M.lines[Line(M.so, i, j) + 1]
    IN  IF M.kind = "sparse" THEN VecAt(line, Within(M.so, i, j))
        ELSE line[Within(M.so, i, j) + 1]

Elements(M) == [p \in Positions(M.m, M.n) |-> MatAt(M, p[1], p[2])]

\* The positions a sparse matrix stores an element at.
Stored(M) ==
    {p \in Positions(M.m, M.n) :
        Within(M.so, p[1], p[2]) \in Indices(M.lines[Line(M.so, p[1], p[2]) + 1])}

\* The sparse matrix of storage order so with the elements f at the
\* positions in stored.
SparseFrom(so, m, n, f, stored) ==
    Matrix("sparse", so, m, n,
           [a \in 1 .. Major(so, m, n) |->
               SparseOf([b \in 1 .. Minor(so, m, n) |-> f[Pos(so, a - 1, b - 1)]],
                        {b \in 0 .. (Minor(so, m, n) - 1) : Pos(so, a - 1, b) \in stored},
                        Minor(so, m, n))])

\* The dense matrix of storage order so with the elements f.
DenseFrom(so, m, n, f) ==
    Matrix("dense", so, m, n,
           [a \in 1 .. Major(so, m, n) |->
               [b \in 1 .. Minor(so, m, n) |-> f[Pos(so, a - 1, b - 1)]]])

\* The sparse matrices the creators return: row-major, every stored
\* element being MatValue.
Operands ==
    {SparseFrom("row", MatRows, MatColumns,
                [p \in Positions(MatRows, MatColumns) |-> MatValue], stored) :
        stored \in SUBSET Positions(MatRows, MatColumns)}

\* A matrix of the given kind and storage order constructed from or
\* assigned the matrix E.
Converted(kind, so, E) ==
    IF kind = "dense" THEN DenseFrom(so, E.m, E.n, Elements(E))
    ELSE SparseFrom(so, E.m, E.n, Elements(E),
                    IF E.kind = "sparse" THEN Stored(E)
                    ELSE {p \in Positions(E.m, E.n) : MatAt(E, p[1], p[2]) /= 0})

\* eval( M ) of a matrix: the matrix.
Eval(M) == M

\* A.rows() != B.rows() || A.columns() != B.columns()
MatrixSizesDiffer(A, B) == A.m /= B.m \/ A.n /= B.n

\* A + B and A - B of two matrices of the same size.  A dense A gives a
\* dense matrix; two sparse matrices give a sparse matrix with an element
\* wherever either operand stores one.
Combined(kind, A, B) ==
    LET f == [p \in Positions(A.m, A.n) |->
                 Combine(kind, MatAt(A, p[1], p[2]), MatAt(B, p[1], p[2]))]
    IN  IF A.kind = "dense" THEN DenseFrom(A.so, A.m, A.n, f)
        ELSE SparseFrom(A.so, A.m, A.n, f,
                        Stored(A) \cup (IF B.kind = "sparse" THEN Stored(B)
                                        ELSE Positions(A.m, A.n)))

\* s * A and A * s (kind "mult") and A / s (kind "div"): every element of
\* a dense matrix and every stored element of a sparse matrix is scaled.
Scaled(kind, A, s) ==
    LET f == [p \in Positions(A.m, A.n) |->
                 IF kind = "mult" THEN MatAt(A, p[1], p[2]) * s
                 ELSE IntDiv(MatAt(A, p[1], p[2]), s)]
    IN  IF A.kind = "dense" THEN DenseFrom(A.so, A.m, A.n, f)
        ELSE SparseFrom(A.so, A.m, A.n, f, Stored(A))

\* T = E
MatAssign(T, E) == Converted(T.kind, T.so, E)

\* T += E and T -= E
MatCompoundAssign(kind, T, E) == Converted(T.kind, T.so, Combined(kind, T, E))

\* isEqual( A, B ): the same size and equal elements.
isEqual(A, B) == ~MatrixSizesDiffer(A, B) /\ Elements(A) = Elements(B)

\* ---------------------------------------------------------------- actions

NoArg == <<>>

\* The return value of a function returning void or a reference to *this.
NoRet == <<>>

\* No SMatSMatSub test object has been constructed.
NoHarness == [at |-> 0]

Init ==
    /\ vector_ \in SparseVectors(VecSize)
    /\ start_ = 0
    /\ size_ = 0
    /\ live = FALSE
    /\ pc = "idle"
    /\ op = "none"
    /\ arg = NoArg
    /\ pre = <<>>
    /\ err = "none"
    /\ ret = NoRet
    /\ harness = NoHarness

\* A call of member function name with arguments a that returns r, the view
\* being alive.
CallReturning(name, a, r) ==
    /\ pc = "idle"
    /\ live
    /\ pc' = "done"
    /\ op' = name
    /\ arg' = a
    /\ pre' = vector_
    /\ ret' = r
    /\ UNCHANGED <<start_, size_, live, harness>>

\* A call of a member function whose return value is not used.
Call(name, a) == CallReturning(name, a, NoRet)

\* The caller goes on after the call.
Return ==
    /\ pc = "done"
    /\ pc' = "idle"
    /\ op' = "none"
    /\ arg' = NoArg
    /\ pre' = <<>>
    /\ err' = "none"
    /\ ret' = NoRet
    /\ UNCHANGED <<vector_, start_, size_, live, harness>>

\* SparseSubvector( vector, start, n ), as called by sub( sv, start, n ).
Construct(start, n) ==
    /\ pc = "idle"
    /\ pc' = "done"
    /\ op' = "construct"
    /\ arg' = [start |-> start, n |-> n]
    /\ pre' = vector_
    /\ ret' = NoRet
    /\ IF CtorThrows(VecSize, start, n)
       THEN /\ err' = "invalid_argument"
            /\ live' = FALSE
            /\ start_' = 0
            /\ size_' = 0
       ELSE /\ err' = "none"
            /\ live' = TRUE
            /\ start_' = start
            /\ size_' = n
    /\ UNCHANGED <<vector_, harness>>

\* sv[index] = x
SubscriptAssign(index, x) ==
    /\ Call("subscript_assign", [index |-> index, value |-> x])
    /\ index < size_
    /\ vector_' = ViewStore(vector_, start_, index, x)
    /\ err' = "none"

\* sv[index], the reference not assigned to
SubscriptAccess(index) ==
    /\ Call("subscript", [index |-> index])
    /\ index < size_
    /\ vector_' = ViewAccess(vector_, start_, index)
    /\ err' = "none"

\* v[index] = x on the backing vector itself, a subvector being alive
VectorAssign(index, x) ==
    /\ Call("vector_assign", [index |-> index, value |-> x])
    /\ index < VecSize
    /\ vector_' = VecStore(vector_, index, x)
    /\ err' = "none"

\* sv.reset()
Reset ==
    /\ Call("reset", NoArg)
    /\ vector_' = ViewReset(vector_, start_, size_)
    /\ err' = "none"

\* sv.insert( index, x ); the backing vector requires start_+index < size()
Insert(index, x) ==
    /\ Call("insert", [index |-> index, value |-> x])
    /\ SizeAdd(start_, index) < VecSize
    /\ vector_' = ViewInsert(vector_, start_, index, x)
    /\ err' = IF ViewInsertThrows(vector_, start_, index)
              THEN "invalid_argument" ELSE "none"

\* sv.erase( index )
Erase(index) ==
    /\ Call("erase", [index |-> index])
    /\ index < size_
    /\ vector_' = ViewErase(vector_, start_, index)
    /\ err' = "none"

\* sv.erase( pos ), pos the iterator to the view's k-th element
EraseIterator(k) ==
    LET pos == Begin(vector_, start_, size_) + k
        r == ViewErasePos(vector_, start_, pos)
    IN  /\ pos < End(vector_, start_, size_)
        /\ CallReturning("erase_iterator", [pos |-> pos], r.ret)
        /\ vector_' = r.vec
        /\ err' = "none"

\* sv.erase( first, last ), the iterators to the view's j-th and k-th
\* elements, last possibly end()
EraseIterators(j, k) ==
    LET first == Begin(vector_, start_, size_) + j
        last == Begin(vector_, start_, size_) + k
        r == ViewEraseRange(vector_, start_, first, last)
    IN  /\ j <= k
        /\ last <= End(vector_, start_, size_)
        /\ CallReturning("erase_range", [first |-> first, last |-> last], r.ret)
        /\ vector_' = r.vec
        /\ err' = "none"

\* The outcome r of the assign loops.
Assigned(r) ==
    /\ vector_' = r.vec
    /\ err' = IF r.threw THEN "invalid_argument" ELSE "none"

\* The exception "Vector sizes do not match".
SizesDoNotMatch ==
    /\ err' = "invalid_argument"
    /\ UNCHANGED vector_

\* sv = x, x a dense vector
AssignDenseVector(x) ==
    /\ Call("assign_dense", [x |-> x])
    /\ IF size_ /= Len(x)
       THEN SizesDoNotMatch
       ELSE Assigned(ResetAssignDense(vector_, start_, size_, x))

\* sv = x, x a sparse vector
AssignSparseVector(x) ==
    /\ Call("assign_sparse", [x |-> x])
    /\ IF size_ /= x.size
       THEN SizesDoNotMatch
       ELSE Assigned(ResetAssignSparse(vector_, start_, size_, x.entries))

\* sv = rhs, rhs a subvector of the same type
CopyAssign(rhs) ==
    /\ Call("copy_assign", [rhs |-> rhs])
    /\ IF CopyReturnsEarly(start_, rhs)
       THEN /\ err' = "none"
            /\ UNCHANGED vector_
       ELSE IF size_ /= rhs.size
       THEN SizesDoNotMatch
       ELSE Assigned(CopyAssignResult(vector_, start_, size_, rhs))

\* sv += x and sv -= x, x a dense vector
CompoundAssignDense(kind, x) ==
    /\ Call("compound_dense", [kind |-> kind, x |-> x])
    /\ IF Len(x) /= size_
       THEN SizesDoNotMatch
       ELSE LET r == CompoundDense(kind, vector_, start_, size_, x)
            IN  InValues(r.vec) /\ Assigned(r)

\* sv += x and sv -= x, x a sparse vector
CompoundAssignSparse(kind, x) ==
    /\ Call("compound_sparse", [kind |-> kind, x |-> x])
    /\ IF x.size /= size_
       THEN SizesDoNotMatch
       ELSE LET r == CompoundSparse(kind, vector_, start_, size_, x.entries)
            IN  InValues(r.vec) /\ Assigned(r)

\* sv += rhs, sv -= rhs and sv *= rhs, rhs a subvector
CompoundAssignView(kind, rhs) ==
    /\ Call("compound_view", [kind |-> kind, rhs |-> rhs])
    /\ IF rhs.size /= size_
       THEN SizesDoNotMatch
       ELSE LET r == CompoundView(kind, vector_, start_, size_, rhs)
            IN  InValues(r.vec) /\ Assigned(r)

\* sv *= rhs, rhs a scalar
ScalarMultAssign(rhs) ==
    /\ Call("scalar_mult", [rhs |-> rhs])
    /\ InScaleValues(ViewScalarMult(vector_, start_, size_, rhs))
    /\ vector_' = ViewScalarMult(vector_, start_, size_, rhs)
    /\ err' = "none"

\* sv.scale( scalar )
Scale(scalar) ==
    /\ Call("scale", [rhs |-> scalar])
    /\ InScaleValues(ViewScale(vector_, start_, size_, scalar))
    /\ vector_' = ViewScale(vector_, start_, size_, scalar)
    /\ err' = "none"

\* sv /= rhs, rhs a scalar; floating: the quotient type is a floating point
\* type; assertions: the build has user assertions enabled
ScalarDivAssign(rhs, floating, assertions) ==
    /\ Call("scalar_div", [rhs |-> rhs, floating |-> floating, assertions |-> assertions])
    /\ IF ScalarDivAsserts(rhs, assertions)
       THEN /\ err' = "assertion"
            /\ UNCHANGED vector_
       ELSE IF rhs = 0
       THEN IF Iterate(vector_, start_, size_) = <<>>
            THEN /\ err' = "none"
                 /\ UNCHANGED vector_
            ELSE /\ err' = "undefined"
                 /\ vector_' \in DivisionByZeroOutcomes(vector_, start_, size_)
       ELSE /\ ScalarDivInValues(vector_, start_, size_, rhs, floating)
            /\ vector_' = ViewScalarDiv(vector_, start_, size_, rhs, floating)
            /\ err' = "none"

\* sv.find( index )
Find(index) ==
    /\ CallReturning("find", [index |-> index], ViewFind(vector_, start_, size_, index))
    /\ err' = "none"
    /\ UNCHANGED vector_

\* sv.lowerBound( index )
LowerBound(index) ==
    /\ CallReturning("lower_bound", [index |-> index],
                     ViewLowerBound(vector_, start_, size_, index))
    /\ err' = "none"
    /\ UNCHANGED vector_

\* sv.upperBound( index )
UpperBound(index) ==
    /\ CallReturning("upper_bound", [index |-> index],
                     ViewUpperBound(vector_, start_, size_, index))
    /\ err' = "none"
    /\ UNCHANGED vector_

\* sv.reserve( n )
Reserve(n) ==
    /\ Call("reserve", [n |-> n])
    /\ vector_' = ViewReserve(vector_, start_, size_, n)
    /\ err' = "none"

\* sv.append( index, x, check ); the backing vector requires
\* start_+index < size()
AppendElement(index, x, check) ==
    /\ Call("append", [index |-> index, value |-> x, check |-> check])
    /\ SizeAdd(start_, index) < VecSize
    /\ vector_' = ViewAppend(vector_, start_, index, x, check)
    /\ err' = IF ViewAppendThrows(vector_, start_, index, x, check)
              THEN "invalid_argument" ELSE "none"

\* sv.canAlias( alias )
CanAliasQuery(alias) ==
    /\ CallReturning("can_alias", [alias |-> alias], CanAlias("v", alias))
    /\ err' = "none"
    /\ UNCHANGED vector_

\* sv.isAliased( alias )
IsAliasedQuery(alias) ==
    /\ CallReturning("is_aliased", [alias |-> alias], IsAliased("v", alias))
    /\ err' = "none"
    /\ UNCHANGED vector_

\* sub( expression, start, n ), the expression of kind kind with vector_ as
\* left operand, B as right operand and c as scalar
SubExpression(kind, B, c, start, n) ==
    /\ pc = "idle"
    /\ pc' = "done"
    /\ op' = "sub_expression"
    /\ arg' = [kind |-> kind, B |-> B, c |-> c, start |-> start, n |-> n]
    /\ pre' = vector_
    /\ ret' = SubPushedDown(kind, vector_, B, c, VecSize, start, n)
    /\ err' = IF CtorThrows(VecSize, start, n) THEN "invalid_argument" ELSE "none"
    /\ UNCHANGED <<vector_, start_, size_, live, harness>>

\* SparseSubvector( vector, start, n ) on a vector of size vsize.
ConstructOn(vsize, start, n) ==
    /\ pc = "idle"
    /\ pc' = "done"
    /\ op' = "construct"
    /\ arg' = [start |-> start, n |-> n]
    /\ pre' = vector_
    /\ ret' = NoRet
    /\ IF CtorThrows(vsize, start, n)
       THEN /\ err' = "invalid_argument"
            /\ live' = FALSE
            /\ start_' = 0
            /\ size_' = 0
       ELSE /\ err' = "none"
            /\ live' = TRUE
            /\ start_' = start
            /\ size_' = n
    /\ UNCHANGED <<vector_, harness>>

\* for( it=sv.begin(); it!=sv.end(); ++it ) reading it->index() and
\* it->value()
IterateView ==
    /\ CallReturning("iterate", NoArg, Iterate(vector_, start_, size_))
    /\ err' = "none"
    /\ UNCHANGED vector_

\* The storage orders of the left and the right operand, in the order of
\* the blocks of a test.
Combos ==
    <<<<"row", "row">>, <<"row", "column">>, <<"column", "row">>, <<"column", "column">>>>

\* The four blocks of a test: one per combination of storage orders.
BlocksOf(test, evaluated) ==
    [c \in DOMAIN Combos |->
        [test |-> test, evaluated |-> evaluated, lt |-> Combos[c][1], rt |-> Combos[c][2]]]

\* The one block of a self-scaling test.
BlockOf(test) == <<[test |-> test, evaluated |-> FALSE, lt |-> "row", rt |-> "row"]>>

\* The blocks the constructor runs, in its order: testElementAccess(),
\* testBasicOperation() and the plain assignments of testScaledOperation().
Program ==
    BlocksOf("element_access", FALSE)
       \o BlocksOf("subtraction", FALSE) \o BlocksOf("subtraction", TRUE)
       \o BlocksOf("addition_assignment", FALSE) \o BlocksOf("addition_assignment", TRUE)
       \o BlocksOf("subtraction_assignment", FALSE) \o BlocksOf("subtraction_assignment", TRUE)
       \o BlockOf("self_scaling_mult") \o BlockOf("self_scaling_div")
       \o BlocksOf("scaled_left", FALSE) \o BlocksOf("scaled_left", TRUE)
       \o BlocksOf("scaled_right", FALSE) \o BlocksOf("scaled_right", TRUE)
       \o BlocksOf("scaled_div", FALSE) \o BlocksOf("scaled_div", TRUE)

\* The members after the member initializers of the constructor.
NewHarness(L, R) ==
    [lhs_ |-> L,
     rhs_ |-> R,
     olhs_ |-> Converted("sparse", "column", L),
     orhs_ |-> Converted("sparse", "column", R),
     dres_ |-> EmptyMatrix("dense", "row"),
     sres_ |-> EmptyMatrix("sparse", "row"),
     odres_ |-> EmptyMatrix("dense", "column"),
     osres_ |-> EmptyMatrix("sparse", "column"),
     reflhs_ |-> Converted("dense", "row", L),
     refrhs_ |-> Converted("dense", "row", R),
     refres_ |-> EmptyMatrix("dense", "row"),
     at |-> 1]

\* The block the constructor has reached.
CurrentBlock == Program[harness.at]

AtBlock(test) ==
    /\ pc = "idle"
    /\ harness.at \in DOMAIN Program
    /\ CurrentBlock.test = test

\* The first block of a test on the given matrices: the one that computes
\* the reference result.
IsFirstBlock(b) == ~b.evaluated /\ b.lt = "row" /\ b.rt = "row"

\* The operands of a block.
LeftOperand(h, b) ==
    LET A == IF b.lt = "row" THEN h.lhs_ ELSE h.olhs_
    IN  IF b.evaluated THEN Eval(A) ELSE A

RightOperand(h, b) ==
    LET B == IF b.rt = "row" THEN h.rhs_ ELSE h.orhs_
    IN  IF b.evaluated THEN Eval(B) ELSE B

\* lhs_ - rhs_ with the operands of the block, and reflhs_ - refrhs_
\* Mutant of Difference: the operands are exchanged.
DifferenceSwapped(h, b) == Combined("sub", RightOperand(h, b), LeftOperand(h, b))

Difference(h, b) == Combined("sub", LeftOperand(h, b), RightOperand(h, b))

RefDifference(h) == Combined("sub", h.reflhs_, h.refrhs_)

\* checkResults(): a result differs from the reference result.
CheckResultsThrows(h) ==
    \/ ~isEqual(h.dres_, h.refres_) \/ ~isEqual(h.odres_, h.refres_)
    \/ ~isEqual(h.sres_, h.refres_) \/ ~isEqual(h.osres_, h.refres_)

\* The end of a block: failed tells whether it threw std::runtime_error,
\* which ends the constructor.
EndBlock(h, failed) ==
    /\ pc' = "done"
    /\ op' = CurrentBlock.test
    /\ arg' = [block |-> CurrentBlock, refres |-> harness.refres_]
    /\ pre' = vector_
    /\ ret' = NoRet
    /\ err' = IF failed THEN "runtime_error" ELSE "none"
    /\ harness' = [h EXCEPT !.at = IF failed THEN Len(Program) + 1 ELSE @ + 1]
    /\ UNCHANGED <<vector_, start_, size_, live>>

\* A block of a test: the try-statement gives the members h, or throws
\* because the sizes do not match, and checkResults() follows.
Block(h, sizesDoNotMatch) ==
    IF sizesDoNotMatch THEN EndBlock(harness, TRUE)
    ELSE EndBlock(h, CheckResultsThrows(h))

\* The results of a block that assigns the expression e to each result and
\* the reference expression r to the reference result.
Assigned4(h, e, r, first) ==
    [h EXCEPT !.dres_ = MatAssign(@, e),
              !.odres_ = MatAssign(@, e),
              !.sres_ = MatAssign(@, e),
              !.osres_ = MatAssign(@, e),
              !.refres_ = IF first THEN MatAssign(@, r) ELSE @]

\* One block of testElementAccess(): element (0,0) of the difference with
\* neither, the right, the left and both operands evaluated.
ElementAccess ==
    /\ AtBlock("element_access")
    /\ LET b == CurrentBlock
           A == IF b.lt = "row" THEN harness.lhs_ ELSE harness.olhs_
           B == IF b.rt = "row" THEN harness.rhs_ ELSE harness.orhs_
           ref == MatAt(harness.reflhs_, 0, 0) - MatAt(harness.refrhs_, 0, 0)
       IN  EndBlock(harness,
                    /\ harness.lhs_.m > 0
                    /\ harness.lhs_.n > 0
                    /\ \/ MatAt(A, 0, 0) - MatAt(B, 0, 0) /= ref
                       \/ MatAt(A, 0, 0) - MatAt(Eval(B), 0, 0) /= ref
                       \/ MatAt(Eval(A), 0, 0) - MatAt(B, 0, 0) /= ref
                       \/ MatAt(Eval(A), 0, 0) - MatAt(Eval(B), 0, 0) /= ref)

\* One block of the tests "Subtraction with the given matrices" and
\* "Subtraction with evaluated matrices".
Subtraction ==
    /\ AtBlock("subtraction")
    /\ LET b == CurrentBlock
       IN  Block(Assigned4(harness, Difference(harness, b), RefDifference(harness),
                           IsFirstBlock(b)),
                 MatrixSizesDiffer(LeftOperand(harness, b), RightOperand(harness, b)))

\* One block of the tests "Subtraction with addition assignment ..." and
\* "Subtraction with subtraction assignment ...".
CompoundSubtraction(kind) ==
    /\ pc = "idle"
    /\ LET b == CurrentBlock
           e == Difference(harness, b)
       IN  Block([harness EXCEPT !.dres_ = MatCompoundAssign(kind, @, e),
                                 !.odres_ = MatCompoundAssign(kind, @, e),
                                 !.sres_ = MatCompoundAssign(kind, @, e),
                                 !.osres_ = MatCompoundAssign(kind, @, e),
                                 !.refres_ = MatCompoundAssign(kind, @, RefDifference(harness))],
                 MatrixSizesDiffer(harness.dres_, e))

AdditionAssignment ==
    /\ AtBlock("addition_assignment")
    /\ CompoundSubtraction("add")

SubtractionAssignment ==
    /\ AtBlock("subtraction_assignment")
    /\ CompoundSubtraction("sub")

\* Mutant of SelfScaling: the sparse results are not scaled.
SelfScalingDenseOnly(kind, scalar) ==
    /\ pc = "idle"
    /\ LET d == MatAssign(harness.dres_, Difference(harness, CurrentBlock))
       IN  Block([harness EXCEPT !.dres_ = Scaled(kind, d, scalar),
                                 !.odres_ = Scaled(kind, MatAssign(@, d), scalar),
                                 !.sres_ = MatAssign(@, d),
                                 !.osres_ = MatAssign(@, d),
                                 !.refres_ = Scaled(kind, MatAssign(@, d), scalar)],
                 FALSE)

\* The tests "Self-scaling (OP*=s)" and "Self-scaling (OP/=s)".
SelfScaling(kind, scalar) ==
    /\ pc = "idle"
    /\ LET d == MatAssign(harness.dres_, Difference(harness, CurrentBlock))
       IN  Block([harness EXCEPT !.dres_ = Scaled(kind, d, scalar),
                                 !.odres_ = Scaled(kind, MatAssign(@, d), scalar),
                                 !.sres_ = Scaled(kind, MatAssign(@, d), scalar),
                                 !.osres_ = Scaled(kind, MatAssign(@, d), scalar),
                                 !.refres_ = Scaled(kind, MatAssign(@, d), scalar)],
                 FALSE)

SelfScalingMult ==
    /\ AtBlock("self_scaling_mult")
    /\ SelfScaling("mult", MatScalar)

SelfScalingDiv ==
    /\ AtBlock("self_scaling_div")
    /\ SelfScaling("div", MatScalar)

\* One block of the tests "Scaled subtraction with ... (s*OP)", "(OP*s)"
\* and "(OP/s)".
ScaledSubtraction(kind, scalar) ==
    /\ pc = "idle"
    /\ LET b == CurrentBlock
       IN  Block(Assigned4(harness, Scaled(kind, Difference(harness, b), scalar),
                           Scaled(kind, RefDifference(harness), scalar), IsFirstBlock(b)),
                 MatrixSizesDiffer(LeftOperand(harness, b), RightOperand(harness, b)))

ScaledLeft ==
    /\ AtBlock("scaled_left")
    /\ ScaledSubtraction("mult", MatScalar)

ScaledRight ==
    /\ AtBlock("scaled_right")
    /\ ScaledSubtraction("mult", MatScalar)

ScaledDiv ==
    /\ AtBlock("scaled_div")
    /\ ScaledSubtraction("div", MatScalar)

\* Mutant of MultAssignDense: the sizes are compared after reset().
MultAssignDenseLateCheck(x) ==
    /\ Call("mult_dense", [x |-> x])
    /\ IF Len(x) /= size_
       THEN /\ err' = "invalid_argument"
            /\ vector_' = ViewReset(vector_, start_, size_)
       ELSE LET r == MultDense(vector_, start_, size_, x)
            IN  InValues(r.vec) /\ Assigned(r)

\* sv *= x, x a dense vector
MultAssignDense(x) ==
    /\ Call("mult_dense", [x |-> x])
    /\ IF Len(x) /= size_
       THEN SizesDoNotMatch
       ELSE LET r == MultDense(vector_, start_, size_, x)
            IN  InValues(r.vec) /\ Assigned(r)

\* sv *= x, x a sparse vector
MultAssignSparse(x) ==
    /\ Call("mult_sparse", [x |-> x])
    /\ IF x.size /= size_
       THEN SizesDoNotMatch
       ELSE LET r == MultSparse(vector_, start_, size_, x.entries)
            IN  InValues(r.vec) /\ Assigned(r)

\* The calls of a program whose indices are in the range of the vector's.
\* A caller that is not idle can only return.
Next ==
    \/ pc = "idle" /\ \E start \in 0 .. (VecSize + 1), n \in 0 .. (VecSize + 1) : Construct(start, n)
    \/ pc = "idle" /\ \E index \in 0 .. (VecSize - 1), x \in Values : SubscriptAssign(index, x)
    \/ pc = "idle" /\ \E index \in 0 .. (VecSize - 1) : SubscriptAccess(index)
    \/ pc = "idle" /\ \E index \in 0 .. (VecSize - 1), x \in Values : VectorAssign(index, x)
    \/ pc = "idle" /\ Reset
    \/ pc = "idle" /\ \E index \in 0 .. (VecSize - 1), x \in Values : Insert(index, x)
    \/ pc = "idle" /\ \E index \in 0 .. (VecSize - 1) : Erase(index)
    \/ pc = "idle" /\ \E x \in DenseVectors : AssignDenseVector(x)
    \/ pc = "idle" /\ \E x \in SparseRhs : AssignSparseVector(x)
    \/ pc = "idle" /\ \E rhs \in ValidRhsViews : CopyAssign(rhs)
    \/ pc = "idle" /\ \E kind \in {"add", "sub"}, x \in DenseVectors : CompoundAssignDense(kind, x)
    \/ pc = "idle" /\ \E kind \in {"add", "sub"}, x \in SparseRhs : CompoundAssignSparse(kind, x)
    \/ pc = "idle" /\ \E x \in DenseVectors : MultAssignDense(x)
    \/ pc = "idle" /\ \E x \in SparseRhs : MultAssignSparse(x)
    \/ pc = "idle" /\ \E k \in 0 .. (VecSize - 1) : EraseIterator(k)
    \/ pc = "idle" /\ \E j \in 0 .. VecSize, k \in 0 .. VecSize : EraseIterators(j, k)
    \/ pc = "idle" /\ \E rhs \in Values : ScalarMultAssign(rhs)
    \/ pc = "idle" /\ \E scalar \in Values : Scale(scalar)
    \/ pc = "idle" /\ \E rhs \in Values, floating \in BOOLEAN, assertions \in BOOLEAN :
                         ScalarDivAssign(rhs, floating, assertions)
    \/ pc = "idle" /\ \E index \in 0 .. (VecSize - 1) : Find(index)
    \/ pc = "idle" /\ \E index \in 0 .. (VecSize - 1) : LowerBound(index)
    \/ pc = "idle" /\ \E index \in 0 .. (VecSize - 1) : UpperBound(index)
    \/ pc = "idle" /\ \E n \in 0 .. (VecSize + 1) : Reserve(n)
    \/ pc = "idle" /\ \E index \in 0 .. (VecSize - 1), x \in Values, check \in BOOLEAN :
                         AppendElement(index, x, check)
    \/ pc = "idle" /\ \E alias \in Addresses : CanAliasQuery(alias)
    \/ pc = "idle" /\ \E alias \in Addresses : IsAliasedQuery(alias)
    \/ pc = "idle" /\ \E kind \in {"add", "sub", "mult"}, rhs \in {r \in ValidRhsViews : r.same} :
                         CompoundAssignView(kind, rhs)
    \/ Return

Spec == Init /\ [][Next]_vars

\* The constructor on every pair of size_t arguments.
NextCtor ==
    \/ pc = "idle" /\ \E start \in SizeT, n \in SizeT : Construct(start, n)
    \/ Return

SpecCtor == Init /\ [][NextCtor]_vars

\* The scalar operations on vectors over ScaleValues.
InitScale ==
    /\ vector_ \in ScaleVectors(VecSize)
    /\ start_ = 0
    /\ size_ = 0
    /\ live = FALSE
    /\ pc = "idle"
    /\ op = "none"
    /\ arg = NoArg
    /\ pre = <<>>
    /\ err = "none"
    /\ ret = NoRet
    /\ harness = NoHarness

NextScale ==
    \/ pc = "idle" /\ \E start \in 0 .. (VecSize + 1), n \in 0 .. (VecSize + 1) : Construct(start, n)
    \/ pc = "idle" /\ \E rhs \in ScaleValues : ScalarMultAssign(rhs)
    \/ pc = "idle" /\ \E scalar \in ScaleValues : Scale(scalar)
    \/ pc = "idle" /\ \E rhs \in ScaleValues, floating \in BOOLEAN, assertions \in BOOLEAN :
                         ScalarDivAssign(rhs, floating, assertions)
    \/ Return

SpecScale == InitScale /\ [][NextScale]_vars

\* The right operands: the sparse vectors of the vector's size that store
\* no zero.
RightOperands == {B \in SparseVectors(VecSize) : \A k \in 1 .. Len(B) : B[k].value /= 0}

\* Subvectors of expressions on the vector.
NextSub ==
    \/ pc = "idle" /\ \E kind \in BinaryKinds, B \in RightOperands,
                          start \in 0 .. VecSize, n \in 0 .. VecSize :
                         SubExpression(kind, B, 0, start, n)
    \/ pc = "idle" /\ \E kind \in ScalarKinds, c \in Values,
                          start \in 0 .. VecSize, n \in 0 .. VecSize :
                         (kind = "sdiv" => c /= 0) /\ SubExpression(kind, <<>>, c, start, n)
    \/ pc = "idle" /\ \E start \in 0 .. VecSize, n \in 0 .. VecSize :
                         SubExpression("abs", <<>>, 0, start, n)
    \/ Return

SpecSub == Init /\ [][NextSub]_vars

\* The vector and the subvector of the scenario: a vector of size 10 with
\* the entries (2, 5), (5, -1) and (7, 3), and the subvector of size 4
\* starting at index 3.
Scenario ==
    [size |-> 10,
     entries |-> <<Entry(2, 5), Entry(5, -1), Entry(7, 3)>>,
     start |-> 3,
     n |-> 4]

\* The vectors holding some of the entries of the scenario.
ScenarioVectors ==
    {SparseOf([k \in 1 .. Scenario.size |-> VecAt(Scenario.entries, k - 1)], stored, Scenario.size) :
        stored \in SUBSET Indices(Scenario.entries)}

InitScenario ==
    /\ vector_ \in ScenarioVectors
    /\ start_ = 0
    /\ size_ = 0
    /\ live = FALSE
    /\ pc = "idle"
    /\ op = "none"
    /\ arg = NoArg
    /\ pre = <<>>
    /\ err = "none"
    /\ ret = NoRet
    /\ harness = NoHarness

NextScenario ==
    \/ pc = "idle" /\ \E start \in 0 .. Scenario.size, n \in 0 .. Scenario.size :
                         ConstructOn(Scenario.size, start, n)
    \/ pc = "idle" /\ IterateView
    \/ Return

SpecScenario == InitScenario /\ [][NextScenario]_vars

\* The test object after the member initializers of its constructor, the
\* creators having returned any two operands.
InitMat ==
    /\ vector_ = <<>>
    /\ start_ = 0
    /\ size_ = 0
    /\ live = FALSE
    /\ pc = "idle"
    /\ op = "none"
    /\ arg = NoArg
    /\ pre = <<>>
    /\ err = "none"
    /\ ret = NoRet
    /\ harness \in {NewHarness(L, R) : L \in Operands, R \in Operands}

NextMat ==
    \/ ElementAccess
    \/ Subtraction
    \/ AdditionAssignment
    \/ SubtractionAssignment
    \/ SelfScalingMult
    \/ SelfScalingDiv
    \/ ScaledLeft
    \/ ScaledRight
    \/ ScaledDiv
    \/ Return

SpecMat == InitMat /\ [][NextMat]_vars

\* ------------------------------------------------------------ properties

\* The entries of a vector as a set.
EntrySet(v) == {v[k] : k \in 1 .. Len(v)}

\* Global index g lies in [s, s+n), in unbounded arithmetic.
InRange(g, s, n) == s <= g /\ g < s + n

\* The entries of v inside and outside [s, s+n).
Inside(v, s, n) == {e \in EntrySet(v) : InRange(e.index, s, n)}

Outside(v, s, n) == {e \in EntrySet(v) : ~InRange(e.index, s, n)}

\* Member function name has just been called.
Done(name) == pc = "done" /\ op = name

\* C1: constructing a view with (start, n) fails with invalid_argument
\* exactly when n = 0 or start + n > vector.size(), and never changes the
\* vector's entries.
C1_CtorRejectsExactly ==
    Done("construct") =>
       /\ (err = "invalid_argument") <=> (arg.n = 0 \/ arg.start + arg.n > VecSize)
       /\ vector_ = pre

\* C2: view[i] and vector[start+i] are the same slot: a value written
\* through view[i] is read at vector[start+i], a value written at
\* vector[start+i] is read through view[i], and the non-const view[i] on a
\* missing element inserts a zero entry at start+i and changes nothing else.
C2_SameSlot ==
    /\ Done("subscript_assign") =>
          /\ VecAt(vector_, start_ + arg.index) = arg.value
          /\ Indices(vector_) = Indices(pre) \cup {start_ + arg.index}
          /\ \A g \in Indices(pre) \ {start_ + arg.index} : VecAt(vector_, g) = VecAt(pre, g)
          /\ IsSorted(vector_)
    /\ Done("subscript") =>
          IF start_ + arg.index \in Indices(pre)
          THEN vector_ = pre
          ELSE /\ EntrySet(vector_) = EntrySet(pre) \cup {Entry(start_ + arg.index, 0)}
               /\ IsSorted(vector_)
    /\ (Done("vector_assign") /\ InRange(arg.index, start_, size_)) =>
          ViewAt(vector_, start_, arg.index - start_) = arg.value

\* A non-zero value has been written through a view strictly inside the
\* vector, at an index that held no entry, between two entries of the vector.
C2_Witness ==
    /\ Done("subscript_assign") /\ arg.value /= 0
    /\ start_ > 0 /\ start_ + size_ < VecSize
    /\ start_ + arg.index \notin Indices(pre)
    /\ Len(vector_) = VecSize

\* C3: iterating a view yields strictly ascending local indices, all in
\* [0, size), and exactly the pairs (g - start, v) of the vector's entries
\* (g, v) with start <= g < start + size.
C3_IterationIsRange ==
    live =>
       LET it == Iterate(vector_, start_, size_)
       IN  /\ \A k \in 1 .. (Len(it) - 1) : it[k].index < it[k + 1].index
           /\ \A k \in 1 .. Len(it) : it[k].index \in 0 .. (size_ - 1)
           /\ EntrySet(it) =
                 {Entry(e.index - start_, e.value) : e \in Inside(vector_, start_, size_)}

\* A view strictly inside the vector, with entries before, inside and
\* after its range.
C3_Witness ==
    /\ live /\ start_ > 0 /\ start_ + size_ < VecSize
    /\ Len(Iterate(vector_, start_, size_)) = size_
    /\ Len(vector_) = VecSize

\* C4: after reset() the view iterates over no entry, no entry of the
\* vector lies in [start, start+size), and the entries outside that range
\* are the ones from before.
C4_ResetFrame ==
    Done("reset") =>
       /\ Iterate(vector_, start_, size_) = <<>>
       /\ Inside(vector_, start_, size_) = {}
       /\ Outside(vector_, start_, size_) = Outside(pre, start_, size_)
       /\ IsSorted(vector_)

\* reset() has run on a view strictly inside the vector whose range held
\* entries, with entries on both sides of the range.
C4_Witness ==
    /\ Done("reset") /\ start_ > 0 /\ start_ + size_ < VecSize
    /\ Len(pre) = VecSize

\* C5: after sv = x with x.size() = sv.size(), x dense or sparse, reading
\* the view element by element gives x, whatever the range held before.
C5_RoundTrip ==
    /\ (Done("assign_dense") /\ Len(arg.x) = size_) =>
          /\ err = "none"
          /\ \A i \in 0 .. (size_ - 1) : ViewAt(vector_, start_, i) = arg.x[i + 1]
    /\ (Done("assign_sparse") /\ arg.x.size = size_) =>
          /\ err = "none"
          /\ \A i \in 0 .. (size_ - 1) : ViewAt(vector_, start_, i) = VecAt(arg.x.entries, i)

\* A dense vector with a zero and a non-zero element has been assigned to
\* a view whose range held an entry for each index: zero where x is not,
\* and non-zero where x is zero.
C5_Witness ==
    /\ Done("assign_dense") /\ err = "none" /\ size_ > 1
    /\ \E i \in 0 .. (size_ - 1) : arg.x[i + 1] = 0 /\ ViewAt(pre, start_, i) /= 0
    /\ \E i \in 0 .. (size_ - 1) : arg.x[i + 1] /= 0 /\ ViewAt(pre, start_, i) = 0
    /\ Len(Iterate(pre, start_, size_)) = size_

\* C6: after sv = rhs, rhs a subvector of matching size, sv holds at every
\* index i the value rhs had at i before the assignment, both when rhs is a
\* view on the same vector (overlapping ranges included) and when it is a
\* view on another vector.
C6_AliasSafe ==
    (Done("copy_assign") /\ arg.rhs.size = size_) =>
       /\ err = "none"
       /\ \A i \in 0 .. (size_ - 1) :
             ViewAt(vector_, start_, i) = ViewAt(RhsVector(arg.rhs, pre), arg.rhs.start, i)

\* The right-hand side was a view on the same vector whose range overlaps
\* the target's, and the assignment changed the overlap.
C6_Witness ==
    /\ Done("copy_assign") /\ err = "none"
    /\ arg.rhs.same /\ arg.rhs.size = size_ /\ size_ > 1
    /\ arg.rhs.start = start_ + 1
    /\ ViewAt(vector_, start_, 1) /= ViewAt(pre, start_, 1)
    /\ ViewAt(vector_, start_, 0) /= 0

\* C7: =, +=, -= and *= with a vector of another size fail with
\* invalid_argument and leave the vector as it was.
C7_SizeMismatchFailsFast ==
    /\ (/\ pc = "done"
        /\ op \in {"assign_dense", "compound_dense", "mult_dense"}
        /\ Len(arg.x) /= size_) => (err = "invalid_argument" /\ vector_ = pre)
    /\ (/\ pc = "done"
        /\ op \in {"assign_sparse", "compound_sparse", "mult_sparse"}
        /\ arg.x.size /= size_) => (err = "invalid_argument" /\ vector_ = pre)

\* A *= with a dense vector of the wrong size has failed on a view whose
\* range holds entries.
C7_Witness ==
    /\ Done("mult_dense") /\ err = "invalid_argument"
    /\ Len(arg.x) /= size_
    /\ Inside(vector_, start_, size_) /= {}

\* C8: copy assignment between two subvectors of different sizes throws
\* invalid_argument, for every pair of subvectors.
C8_CopyMismatchThrows ==
    (Done("copy_assign") /\ arg.rhs.size /= size_) => err = "invalid_argument"

\* C9: insert(i, value) with i in [0, size): on an index that already holds
\* an entry it fails with invalid_argument and changes nothing; otherwise it
\* adds exactly the entry (start+i, value).
C9_InsertContract ==
    (Done("insert") /\ arg.index < size_) =>
       IF start_ + arg.index \in Indices(pre)
       THEN err = "invalid_argument" /\ vector_ = pre
       ELSE /\ err = "none"
            /\ EntrySet(vector_) = EntrySet(pre) \cup {Entry(start_ + arg.index, arg.value)}
            /\ Len(vector_) = Len(pre) + 1
            /\ IsSorted(vector_)

\* An insert through a view away from index 0 has added an entry between
\* two entries of the vector.
C9_Witness ==
    /\ Done("insert") /\ err = "none" /\ arg.index < size_
    /\ start_ > 0 /\ start_ + size_ < VecSize
    /\ Len(vector_) = VecSize

\* C10: insert(index, value) with index >= size() is rejected with
\* invalid_argument and changes nothing.
C10_InsertRejectsOutOfRange ==
    (Done("insert") /\ arg.index >= size_) => (err = "invalid_argument" /\ vector_ = pre)

\* The entry a view iterator returned by an erase points to: the entry of
\* the vector at that position, or "end" for the view's end().
Pointee(v, s, n, pos) ==
    IF pos = End(v, s, n) THEN <<"end">>
    ELSE IF pos \in 1 .. Len(v) THEN <<v[pos]>> ELSE <<"invalid">>

C12_CompoundResult ==
    /\ (Done("compound_dense") /\ Len(arg.x) = size_) =>
          /\ err = "none"
          /\ \A i \in 0 .. (size_ - 1) :
                ViewAt(vector_, start_, i) =
                   Combine(arg.kind, ViewAt(pre, start_, i), arg.x[i + 1])
          /\ Outside(vector_, start_, size_) = Outside(pre, start_, size_)
    /\ (Done("compound_sparse") /\ arg.x.size = size_) =>
          /\ err = "none"
          /\ \A i \in 0 .. (size_ - 1) :
                ViewAt(vector_, start_, i) =
                   Combine(arg.kind, ViewAt(pre, start_, i), VecAt(arg.x.entries, i))
          /\ Outside(vector_, start_, size_) = Outside(pre, start_, size_)
    /\ (Done("mult_dense") /\ Len(arg.x) = size_) =>
          /\ err = "none"
          /\ \A i \in 0 .. (size_ - 1) :
                ViewAt(vector_, start_, i) = ViewAt(pre, start_, i) * arg.x[i + 1]
          /\ Outside(vector_, start_, size_) = Outside(pre, start_, size_)
    /\ (Done("mult_sparse") /\ arg.x.size = size_) =>
          /\ err = "none"
          /\ \A i \in 0 .. (size_ - 1) :
                ViewAt(vector_, start_, i) = ViewAt(pre, start_, i) * VecAt(arg.x.entries, i)
          /\ Outside(vector_, start_, size_) = Outside(pre, start_, size_)

\* sv -= x, x dense, on a view strictly inside the vector with entries on
\* both sides: an element of the view went from non-zero to zero and the
\* view's entry for it is gone.
C12_Witness ==
    /\ Done("compound_dense") /\ arg.kind = "sub" /\ err = "none"
    /\ start_ > 0 /\ start_ + size_ < VecSize
    /\ Len(pre) = VecSize /\ Len(vector_) = VecSize - 1
    /\ ViewAt(pre, start_, 0) /= 0

\* The global indices of the vector's entries in [s, s+n).
InsideIndices(v, s, n) == {g \in Indices(v) : InRange(g, s, n)}

\* C13: sv *= s, s a scalar, updates the existing entries in place: the
\* stored indices of the whole vector are the same before and after, also
\* for s = 0; every entry in [start, start+size) has its value multiplied by
\* s; every entry outside is unchanged.
C13_ScalarMultInPlace ==
    (pc = "done" /\ op \in {"scalar_mult", "scale"}) =>
       /\ Indices(vector_) = Indices(pre)
       /\ Len(vector_) = Len(pre)
       /\ \A g \in InsideIndices(pre, start_, size_) :
             VecAt(vector_, g) = VecAt(pre, g) * arg.rhs
       /\ Outside(vector_, start_, size_) = Outside(pre, start_, size_)

\* sv *= 0 on a view strictly inside the vector, with entries on both
\* sides: the view's non-zero entry is kept as a stored zero.
C13_Witness ==
    /\ Done("scalar_mult") /\ arg.rhs = 0
    /\ start_ > 0 /\ start_ + size_ < VecSize
    /\ Len(vector_) = VecSize
    /\ \E g \in InsideIndices(pre, start_, size_) : VecAt(pre, g) /= 0

\* C14: sv /= s with s /= 0 and an integral quotient type divides every
\* stored entry of the range by s with the integer division (no reciprocal),
\* keeps the stored indices and leaves the entries outside the range
\* unchanged; with a floating point quotient type the entries are
\* multiplied by the reciprocal 1/s.
C14_IntegralDivisionIsDirect ==
    (Done("scalar_div") /\ arg.rhs /= 0) =>
       /\ err = "none"
       /\ Indices(vector_) = Indices(pre)
       /\ Len(vector_) = Len(pre)
       /\ Outside(vector_, start_, size_) = Outside(pre, start_, size_)
       /\ ~arg.floating =>
             \A g \in InsideIndices(pre, start_, size_) :
                VecAt(vector_, g) = IntDiv(VecAt(pre, g), arg.rhs)
       /\ arg.floating =>
             \A g \in InsideIndices(pre, start_, size_) :
                VecAt(vector_, g) * arg.rhs = VecAt(pre, g)

\* An integral sv /= 2 has taken an entry 2 to 1 and an entry 1 to 0,
\* where the integer reciprocal 1/2 = 0 would have cleared both.
C14_Witness ==
    /\ Done("scalar_div") /\ arg.rhs = 2 /\ ~arg.floating
    /\ \E g \in InsideIndices(pre, start_, size_) : VecAt(pre, g) = 2 /\ VecAt(vector_, g) = 1
    /\ \E g \in InsideIndices(pre, start_, size_) : VecAt(pre, g) = 1 /\ VecAt(vector_, g) = 0
    /\ Outside(pre, start_, size_) /= {}

\* C15: with user assertions enabled sv /= 0 stops at the assertion, which
\* comes before any element is touched: the vector is as it was.
C15_DivisionByZeroAsserts ==
    (Done("scalar_div") /\ arg.rhs = 0 /\ arg.assertions) =>
       (err = "assertion" /\ vector_ = pre)

\* sv /= 0 has stopped at the assertion on a view that holds entries.
C15_Witness ==
    /\ Done("scalar_div") /\ arg.rhs = 0 /\ arg.assertions
    /\ err = "assertion"
    /\ Inside(vector_, start_, size_) /= {}

\* The positions of the view's entries whose local index is in the set J.
ViewPositions(v, s, n, J) ==
    {k \in Begin(v, s, n) .. (End(v, s, n) - 1) : ElementIndex(v[k], s) \in J}

\* The first of the positions in P, or the view's end().
FirstOrEnd(v, s, n, P) ==
    IF P = {} THEN End(v, s, n) ELSE CHOOSE k \in P : \A j \in P : k <= j

\* C16: for i in [0, size), find(i) returns the iterator to the entry with
\* index() = i if the vector holds an entry at start+i and the view's end()
\* otherwise; lowerBound(i) and upperBound(i) return the first entry of the
\* view with local index >= i and > i, and the view's end() if there is none
\* inside the view.
C16_Lookups ==
    /\ (Done("find") /\ arg.index < size_) =>
          ret = FirstOrEnd(vector_, start_, size_,
                           ViewPositions(vector_, start_, size_, {arg.index}))
    /\ (Done("find") /\ arg.index < size_ /\ start_ + arg.index \in Indices(vector_)) =>
          /\ ret /= End(vector_, start_, size_)
          /\ ElementIndex(vector_[ret], start_) = arg.index
    /\ (Done("lower_bound") /\ arg.index < size_) =>
          ret = FirstOrEnd(vector_, start_, size_,
                           ViewPositions(vector_, start_, size_, arg.index .. (size_ - 1)))
    /\ (Done("upper_bound") /\ arg.index < size_) =>
          ret = FirstOrEnd(vector_, start_, size_,
                           ViewPositions(vector_, start_, size_, (arg.index + 1) .. (size_ - 1)))

\* find(i) has missed in a view that is followed by an entry of the
\* vector: the iterator returned is the view's end(), not the vector's.
C16_Witness ==
    /\ Done("find") /\ arg.index < size_
    /\ start_ + arg.index \notin Indices(vector_)
    /\ ret = End(vector_, start_, size_)
    /\ ret /= VecEnd(vector_)
    /\ Inside(vector_, start_, size_) /= {}

\* C17: every constructed view has size() equal to the n it was constructed
\* with, size() > 0 and start + size() <= vector.size(); size() and the
\* start of the view are changed by no member function.
C17_SizeAndStartFixed ==
    /\ [](live => /\ size_ > 0
                  /\ start_ + size_ <= VecSize
                  /\ Done("construct") => (size_ = arg.n /\ start_ = arg.start))
    /\ [][op' /= "construct" => (size_' = size_ /\ start_' = start_)]_vars

\* C18: in every reachable state nonZeros() of a view is smaller than its
\* size().
C18_NonZerosBelowSize ==
    live => NonZeros(vector_, start_, size_) < Size(vector_, start_, size_)

\* C19: after reserve(n) capacity() is at least n and the entries of the
\* view are the ones from before.
C19_ReserveRaisesCapacity ==
    Done("reserve") =>
       /\ Capacity(vector_, start_, size_) >= arg.n
       /\ Iterate(vector_, start_, size_) = Iterate(pre, start_, size_)

\* C20: append(i, value, check) with check set and a zero value appends
\* nothing and leaves the vector as it was; otherwise, i in [0, size) being
\* larger than every local index stored in the view, the entry
\* (start+i, value) becomes the last entry of the view and every other
\* entry is unchanged.  Without check a zero value is stored as an entry.
C20_AppendContract ==
    /\ (Done("append") /\ arg.check /\ arg.value = 0) =>
          (err = "none" /\ vector_ = pre)
    /\ (/\ Done("append")
        /\ ~(arg.check /\ arg.value = 0)
        /\ arg.index < size_
        /\ \A e \in EntrySet(Iterate(pre, start_, size_)) : e.index < arg.index) =>
          /\ err = "none"
          /\ EntrySet(vector_) = EntrySet(pre) \cup {Entry(start_ + arg.index, arg.value)}
          /\ Len(vector_) = Len(pre) + 1
          /\ IsSorted(vector_)
          /\ LET it == Iterate(vector_, start_, size_)
             IN  it /= <<>> /\ it[Len(it)] = Entry(arg.index, arg.value)

\* A zero has been appended without check behind an entry of a view that
\* is followed by an entry of the vector.
C20_Witness ==
    /\ Done("append") /\ ~arg.check /\ arg.value = 0 /\ err = "none"
    /\ arg.index < size_
    /\ Len(Iterate(vector_, start_, size_)) = 2
    /\ start_ + size_ < VecSize
    /\ VecAt(vector_, start_ + size_) /= 0

\* C21: canAlias(c) and isAliased(c) give the same result for every address
\* c: true exactly when c is the address of the view's vector, whatever the
\* start and the size of the view.
C21_AliasTestsAgree ==
    (pc = "done" /\ op \in {"can_alias", "is_aliased"}) =>
       /\ ret = (arg.alias = "v")
       /\ ret = CanAlias("v", arg.alias)
       /\ ret = IsAliased("v", arg.alias)

\* isAliased has answered no for another vector, asked through a view that
\* does not start at index 0.
C21_Witness ==
    /\ Done("is_aliased") /\ arg.alias = "w" /\ ret = FALSE
    /\ start_ > 0

\* C22: for vectors A and B of equal size, a scalar c and every valid
\* (start, n), the restructured sub( A+B, start, n ) has the elements of
\* sub( eval( A+B ), start, n ), and likewise for A-B, A*B, A*c, A/c with
\* c /= 0 and abs( A ).
C22_PushDownPreservesResults ==
    Done("sub_expression") =>
       ret = SubOfEvaluated(arg.kind, vector_, arg.B, arg.c, VecSize, arg.start, arg.n)

\* A subvector of A - B away from index 0, the operands differing inside
\* and outside of the range.
C22_Witness ==
    /\ Done("sub_expression") /\ arg.kind = "sub" /\ ~ret.threw
    /\ arg.start > 0 /\ arg.start + arg.n = VecSize /\ arg.n > 1
    /\ \A i \in 1 .. arg.n : ret.elems[i] /= 0
    /\ VecAt(vector_, 0) /= VecAt(arg.B, 0)
    /\ VecAt(arg.B, 0) /= VecAt(arg.B, arg.start)

\* The view of the scenario on the vector of the scenario.
ScenarioView ==
    /\ live
    /\ vector_ = Scenario.entries
    /\ start_ = Scenario.start
    /\ size_ = Scenario.n

\* C23: on the vector of size 10 with the entries (2, 5), (5, -1) and
\* (7, 3) the subvector (3, 4) covers the indices 3..6 and its iteration
\* yields one entry, with local index 2 and value -1.
C23_Scenario ==
    /\ ~CtorThrows(Scenario.size, Scenario.start, Scenario.n)
    /\ ScenarioView =>
          /\ {g \in 0 .. (Scenario.size - 1) : InRange(g, start_, size_)} = 3 .. 6
          /\ Iterate(vector_, start_, size_) = <<Entry(2, -1)>>
          /\ NonZeros(vector_, start_, size_) = 1
    /\ (Done("iterate") /\ ScenarioView) => ret = <<Entry(2, -1)>>

\* The view of the scenario has been iterated.
C23_Witness == Done("iterate") /\ ScenarioView /\ Len(ret) = 1

\* The results of the test object.
Results == {harness.dres_, harness.odres_, harness.sres_, harness.osres_}

\* The difference of the dense reference copies of the operands at p.
RefAt(p) == MatAt(harness.reflhs_, p[1], p[2]) - MatAt(harness.refrhs_, p[1], p[2])

\* The results have the kinds and storage orders of their types, and the
\* reference matrices are dense copies of the operands.
ResultTypes ==
    /\ harness.dres_.kind = "dense" /\ harness.dres_.so = "row"
    /\ harness.odres_.kind = "dense" /\ harness.odres_.so = "column"
    /\ harness.sres_.kind = "sparse" /\ harness.sres_.so = "row"
    /\ harness.osres_.kind = "sparse" /\ harness.osres_.so = "column"
    /\ harness.reflhs_.kind = "dense" /\ harness.refrhs_.kind = "dense"
    /\ harness.refres_.kind = "dense"
    /\ \A p \in Positions(MatRows, MatColumns) :
          /\ harness.reflhs_.lines[p[1] + 1][p[2] + 1] = VecAt(harness.lhs_.lines[p[1] + 1], p[2])
          /\ harness.refrhs_.lines[p[1] + 1][p[2] + 1] = VecAt(harness.rhs_.lines[p[1] + 1], p[2])

DerivedTests ==
    {"addition_assignment", "subtraction_assignment", "self_scaling_mult", "self_scaling_div",
     "scaled_left", "scaled_right", "scaled_div"}

\* The element at p the test that has just run has to give, computed on
\* the dense reference copies of the operands and on the reference result
\* before the test.
ExpectedAt(p) ==
    CASE op = "addition_assignment" -> MatAt(arg.refres, p[1], p[2]) + RefAt(p)
      [] op = "subtraction_assignment" -> MatAt(arg.refres, p[1], p[2]) - RefAt(p)
      [] op \in {"self_scaling_mult", "scaled_left", "scaled_right"} -> RefAt(p) * MatScalar
      [] op \in {"self_scaling_div", "scaled_div"} -> IntDiv(RefAt(p), MatScalar)

ViewUpdates ==
    {"subscript_assign", "subscript", "reset", "insert", "erase", "erase_iterator", "erase_range",
     "assign_dense", "assign_sparse", "copy_assign", "compound_dense", "compound_sparse",
     "compound_view", "mult_dense", "mult_sparse", "scalar_mult", "scale", "scalar_div",
     "append"}

\* The call that has just finished took no index, or an index in
\* [0, size_).
LocalIndexInRange == ("index" \in DOMAIN arg) => arg.index < size_

\* C26: a member function of the subvector called with local indices in
\* [0, size_) leaves every entry of the vector outside
\* [start_, start_+size_) as it was, adds none there, and leaves every
\* entry at an index below the vector's size.
C26_Frame ==
    (pc = "done" /\ op \in ViewUpdates /\ LocalIndexInRange) =>
       /\ Outside(vector_, start_, size_) = Outside(pre, start_, size_)
       /\ \A i \in Indices(vector_) : i < VecSize

\* An element of the subvector has been erased, the vector holding entries
\* before and after the subvector.
C26_Witness ==
    /\ Done("erase")
    /\ start_ > 0
    /\ arg.index < size_
    /\ vector_ /= pre
    /\ \E e, f \in Outside(vector_, start_, size_) : e.index < start_ /\ f.index >= start_ + size_

\* append() has been called with an index the vector holds an entry at.
AppendAtOccupiedIndex ==
    Done("append") /\ (start_ + arg.index) \in Indices(pre)

\* C27 as stated: the entries of the vector stay strictly ascending by
\* index, and every append at an index that holds an entry fails with the
\* duplicate-element error.
C27_EveryDuplicateAppendFails ==
    /\ IsSorted(vector_)
    /\ AppendAtOccupiedIndex => (err = "invalid_argument" /\ vector_ = pre)

\* C27, amended: the entries of the vector stay strictly ascending by index
\* after every call, appends in non-increasing order included; an append at
\* an index that holds an entry stores no second entry: it fails with the
\* duplicate-element error, unless check is set and the value is the
\* default, in which case it does nothing.
C27_SortedAndDuplicateRejected ==
    /\ IsSorted(vector_)
    /\ AppendAtOccupiedIndex =>
          /\ vector_ = pre
          /\ err = IF arg.check /\ arg.value = 0 THEN "none" ELSE "invalid_argument"

\* An element has been appended in front of an entry of the subvector.
C27_Witness ==
    /\ Done("append")
    /\ err = "none"
    /\ vector_ /= pre
    /\ arg.index < size_
    /\ \E e \in Inside(pre, start_, size_) : e.index > start_ + arg.index

\* C28: with start and n held in SizeBits-bit unsigned integers and
\* start + n computed modulo 2^SizeBits, every (start, n) the constructor
\* accepts satisfies start + n <= vector.size() in unbounded arithmetic, so
\* that an accepted view covers no index >= vector.size().
C28_AcceptedRangeFits ==
    (Done("construct") /\ err = "none") =>
       /\ arg.start + arg.n <= VecSize
       /\ \A g \in SizeT : InRange(g, start_, size_) => g < VecSize

\* C29: after sv = x with x dense the subvector stores an entry at i
\* exactly when x[i] is not zero, and nonZeros() is the number of non-zero
\* elements of x; after sv = x with x sparse the subvector stores exactly
\* the entries x stores, stored zeros included, and nonZeros() is
\* x.nonZeros().
C29_StoredStructure ==
    /\ (Done("assign_dense") /\ err = "none") =>
          /\ Indices(Iterate(vector_, start_, size_)) =
                {i \in 0 .. (size_ - 1) : arg.x[i + 1] /= 0}
          /\ NonZeros(vector_, start_, size_) =
                Cardinality({i \in 1 .. Len(arg.x) : arg.x[i] /= 0})
    /\ (Done("assign_sparse") /\ err = "none") =>
          /\ Iterate(vector_, start_, size_) = arg.x.entries
          /\ NonZeros(vector_, start_, size_) = Len(arg.x.entries)

\* A sparse vector that stores a zero and a non-zero element has been
\* assigned to a subvector that held other entries.
C29_Witness ==
    /\ Done("assign_sparse") /\ err = "none" /\ start_ > 0
    /\ \E k, l \in 1 .. Len(arg.x.entries) :
          arg.x.entries[k].value = 0 /\ arg.x.entries[l].value /= 0
    /\ Iterate(pre, start_, size_) /= <<>>
    /\ Indices(Iterate(pre, start_, size_)) /= Indices(arg.x.entries)

\* C30: after sv += w, sv -= w and sv *= w, w a subvector of the same
\* vector and of the size of sv, overlapping ranges included, sv holds at
\* every index i the sum, difference or product of the values sv and w had
\* at i before the call.
C30_CompoundAliasSafe ==
    (Done("compound_view") /\ arg.rhs.same /\ arg.rhs.size = size_) =>
       /\ err = "none"
       /\ \A i \in 0 .. (size_ - 1) :
             ViewAt(vector_, start_, i) =
                Combine(arg.kind, ViewAt(pre, start_, i), ViewAt(pre, arg.rhs.start, i))

\* A subvector that starts one index later in the same vector has been
\* added; the element the two ranges share was not zero.
C30_Witness ==
    /\ Done("compound_view") /\ arg.kind = "add" /\ err = "none"
    /\ arg.rhs.same /\ arg.rhs.size = size_ /\ size_ > 1
    /\ arg.rhs.start = start_ + 1
    /\ ViewAt(pre, start_, 1) /= 0
    /\ vector_ /= pre

====
